---- MODULE Spec2Model ----
(***************************************************************************)
(* The audio playback coordinator of the sound board (utils/audio):        *)
(* the lazily created AudioContext with its master gain node, the set of   *)
(* active sources, the pending fade timeout, and the asynchronous          *)
(* playAudioBlob calls.  A call suspends at ctx.resume() (pc "resume") and *)
(* at blob.arrayBuffer() followed by ctx.decodeAudioData() (pc "decode":   *)
(* the call touches no state between these two awaits, so they are one     *)
(* suspension that ends when the second resolves or either rejects).       *)
(*                                                                         *)
(* Gains and volumes are counted in units of 0.5 (2 is 1.0), durations in  *)
(* hundredths of a second (5 is 0.05 s).                                   *)
(***************************************************************************)
EXTENDS Integers, Sequences, FiniteSets, TLC

\* ---------------------------------------------------------------- bounds
\* number of playAudioBlob calls in one behaviour
MaxCalls == 2
\* number of window.setTimeout calls in one behaviour
MaxTimers == 2

\* length of the raw PCM byte sequences that are wrapped
MaxSamples == 3

\* number of save-pad and delete-pad operations in one behaviour
MaxEdits == 2

\* ------------------------------------------------------------- constants
\* the number of pads of the grid
TOTAL_PADS == 16
\* "duration <= 0.05", in hundredths of a second
Epsilon == 5
\* masterGainNode.gain.value = 1.0, in units of 0.5
MasterInit == 2
\* default of the volume parameter of playAudioBlob (1.0), in units of 0.5
DefaultVolume == 2

\* ----------------------------------------------------------------- inputs
\* the pads a caller plays, as (pad.audioBlob, pad.volume): payload A at 0.5,
\* payload B at 1.0, and X, whose bytes are truncated, at 1.0
Pads == {<<"A", 1>>, <<"B", DefaultVolume>>, <<"X", DefaultVolume>>}
\* decodeAudioData resolves for A and B and rejects X
Decodable(blob) == blob # "X"
\* fade durations 0 s, 0.05 s and 2 s
Durations == {0, Epsilon, 200}
\* arguments of setMasterVolume: 0.5 and 1.5
Levels == {1, 3}

VARIABLES
    audioContext,     \* TRUE once the AudioContext singleton exists (null before)
    contexts,         \* how many AudioContext objects, each with its own
                      \* master gain node, have been constructed
    ctxState,         \* ctx.state: "suspended" or "running" (the state the
                      \* browser gives the context when it is created)
    masterGainNode,   \* target of masterGainNode.gain, 0 while the node is null
    hasMasterGain,    \* TRUE once masterGainNode is not null
    activeSources,    \* Set<AudioSourceEntry>: ids of the registered voices
    voices,           \* every AudioSourceEntry ever created, by id: payload
                      \* and volume, the value and the scheduled ramp of
                      \* its gain (and the value the ramp starts from), the
                      \* source ("playing", "finished": played to its end,
                      \* "stopped"), whether its ended event was dispatched,
                      \* and whether its gain feeds the master gain node
    fadeTimeout,      \* the timer id held by fadeTimeout, 0 for null
    timers,           \* the timeouts window.setTimeout has scheduled and that
                      \* have neither fired nor been cleared: the id, and the
                      \* number of entries created before it was scheduled
    nextTimer,        \* the id the next window.setTimeout returns
    calls,            \* the playAudioBlob calls made so far, in call order:
                      \* the arguments, the await the call is suspended at,
                      \* which awaited promise rejected ("none", "resume",
                      \* "decode"), whether the catch block logged, how the
                      \* returned promise settled, the entry the call
                      \* created (0: none) and whether the call found a fade
                      \* timeout pending when its decode settled
    stoppedBefore,    \* ids of the timeouts that were scheduled and had
                      \* neither fired nor been cleared when a caller invoked
                      \* stopAllSounds
    wav,              \* the speech service (services/gemini): the raw PCM
                      \* bytes at hand, the function that wrapped them
                      \* ("none" before), its parameters, and the bytes of
                      \* the WAV file it returned
    app,              \* the board (App, Pad, EditModal): the pad list, edit
                      \* mode, the open modal with the pad it edits and the
                      \* shortcut it has recorded, the handler that ran last
                      \* and the playAudioBlob calls it made, the number of
                      \* save and delete operations so far
    kbd               \* one keydown event and what the shortcut recorder
                      \* and the global key listener made of it

vars == <<audioContext, contexts, ctxState, masterGainNode, hasMasterGain, activeSources,
          voices, fadeTimeout, timers, nextTimer, calls, stoppedBefore, wav,
          app, kbd>>

\* no PCM bytes have been wrapped
NoWav ==
    [samples |-> <<>>, by |-> "none", sampleRate |-> 0, numChannels |-> 0,
     bitDepth |-> 0, file |-> <<>>]

\* App as it is constructed: no pads until initPads has run (useState([])),
\* play mode, no modal, no pad being edited
NoApp ==
    [pads |-> <<>>, initPads |-> "pending", isEditMode |-> FALSE,
     isModalOpen |-> FALSE, editingPadId |-> <<>>, shortcut |-> "",
     by |-> [handler |-> "none"], played |-> <<>>, edits |-> 0]

\* no key has been pressed
NoKbd ==
    [e |-> <<>>, recorded |-> <<>>, heard |-> <<>>]

\* the module state of utils/audio as one record
Coord ==
    [audioContext |-> audioContext, contexts |-> contexts,
     ctxState |-> ctxState,
     masterGainNode |-> masterGainNode, hasMasterGain |-> hasMasterGain,
     activeSources |-> activeSources, voices |-> voices,
     fadeTimeout |-> fadeTimeout, timers |-> timers, nextTimer |-> nextTimer]

\* the primed module state equals record s
Becomes(s) ==
    /\ audioContext' = s.audioContext
    /\ contexts' = s.contexts
    /\ ctxState' = s.ctxState
    /\ masterGainNode' = s.masterGainNode
    /\ hasMasterGain' = s.hasMasterGain
    /\ activeSources' = s.activeSources
    /\ voices' = s.voices
    /\ fadeTimeout' = s.fadeTimeout
    /\ timers' = s.timers
    /\ nextTimer' = s.nextTimer
    /\ UNCHANGED <<wav, app, kbd>>

\* ------------------------------------------------------- getAudioContext
\* mutant: a context and a master gain node are constructed on every call
getAudioContext_always(s) ==
    [s EXCEPT !.audioContext = TRUE,
              !.contexts = @ + 1,
              !.hasMasterGain = TRUE,
              !.masterGainNode = MasterInit]

getAudioContext(s) ==
    IF ~s.audioContext
    THEN [s EXCEPT !.audioContext = TRUE,
                   !.contexts = @ + 1,
                   !.hasMasterGain = TRUE,
                   !.masterGainNode = MasterInit]
    ELSE s

\* ------------------------------------------------------- setMasterVolume
\* mutant: the argument is added to the current target
setMasterVolume_relative(s, volume) ==
    LET c == getAudioContext(s)
    IN  IF c.hasMasterGain THEN [c EXCEPT !.masterGainNode = @ + volume] ELSE c

setMasterVolume(s, volume) ==
    LET c == getAudioContext(s)
    IN  IF c.hasMasterGain THEN [c EXCEPT !.masterGainNode = volume] ELSE c

\* --------------------------------------------------------- stopAllSounds
\* mutant: the slot is emptied but window.clearTimeout is not called
clearFadeTimeout_nullOnly(s) == [s EXCEPT !.fadeTimeout = 0]

\* mutant: the pending fade stop is not cancelled at all
clearFadeTimeout_skip(s) == s

\* if (fadeTimeout) { window.clearTimeout(fadeTimeout); fadeTimeout = null; }
clearFadeTimeout(s) ==
    IF s.fadeTimeout # 0
    THEN [s EXCEPT !.timers = {t \in @ : t.id # s.fadeTimeout},
                   !.fadeTimeout = 0]
    ELSE s

\* source.stop() on a source whose buffer has already played to its end:
\* browsers either ignore the call or raise InvalidStateError, which the
\* catch of lines 45-47 swallows; the entry is the same in both cases, and
\* the model takes the one that raises
stopThrows(e) == e.st # "playing"

\* mutant: the ramp is cancelled but source.stop() is not called
stopEntry_noStop(e) == [e EXCEPT !.ramp = FALSE, !.rampFrom = 0]

\* gain.gain.cancelScheduledValues(0); source.stop() on one entry, inside
\* try/catch: the ramp is dropped, a playing source is stopped, a finished
\* one is left as it is
stopEntry(e) ==
    [e EXCEPT !.ramp = FALSE, !.rampFrom = 0,
              !.st = IF stopThrows(e) THEN @ ELSE "stopped"]

\* an entry that has left the registry (activeSources.clear(), or
\* activeSources.delete(entry)): its source is stopped or has finished and
\* nothing reads its gain node again.  The model keeps of it what the call
\* created (payload, volume, connection) and how its source ended, and
\* forgets the value and the timeline of its gain.
unregistered(e) == [e EXCEPT !.gain = 0, !.ramp = FALSE, !.rampFrom = 0]

\* mutant: the sources are stopped but activeSources.clear() is missing
stopAllSounds_noClear(s) ==
    LET c == clearFadeTimeout(s)
    IN  [c EXCEPT !.voices = [v \in DOMAIN @ |->
                                IF v \in c.activeSources THEN stopEntry(@[v])
                                                         ELSE @[v]]]

\* mutant: no try/catch around source.stop(): the error of a finished
\* source leaves forEach, and activeSources.clear() is not reached
stopAllSounds_noCatch(s) ==
    LET c == clearFadeTimeout(s)
        thrown == \E v \in c.activeSources : stopThrows(c.voices[v])
    IN  [c EXCEPT !.voices = [v \in DOMAIN @ |->
                                IF v \notin c.activeSources THEN @[v]
                                ELSE IF thrown THEN stopEntry(@[v])
                                ELSE unregistered(stopEntry(@[v]))],
                  !.activeSources = IF thrown THEN @ ELSE {}]

\* mutant: the registry is cleared but the forEach that stops the sources
\* is missing
stopAllSounds_clearOnly(s) ==
    [clearFadeTimeout(s) EXCEPT !.activeSources = {}]

stopAllSounds(s) ==
    LET c == clearFadeTimeout(s)
    IN  [c EXCEPT !.voices = [v \in DOMAIN @ |->
                                IF v \in c.activeSources
                                THEN unregistered(stopEntry(@[v]))
                                ELSE @[v]],
                  !.activeSources = {}]

\* ------------------------------------------------------ fadeOutAllSounds
\* mutant: the ramp starts at the volume the pad was played with
rampEntry_fromVolume(e) ==
    [e EXCEPT !.ramp = TRUE, !.gain = e.volume, !.rampFrom = e.volume]

\* cancelScheduledValues(now); setValueAtTime(gain.value, now);
\* linearRampToValueAtTime(0, endTime): the ramp starts at the current value,
\* which setValueAtTime puts on the timeline of the gain
rampEntry(e) == [e EXCEPT !.ramp = TRUE, !.rampFrom = e.gain]

\* mutant: the timeout is scheduled but its id is not kept in fadeTimeout
setFadeTimeout_noRecord(s) ==
    [s EXCEPT !.timers = @ \cup {[id |-> s.nextTimer,
                                   entries |-> Len(s.voices)]},
              !.nextTimer = @ + 1]

\* fadeTimeout = window.setTimeout(() => stopAllSounds(), duration * 1000)
setFadeTimeout(s) ==
    [s EXCEPT !.fadeTimeout = s.nextTimer,
              !.timers = @ \cup {[id |-> s.nextTimer,
                                   entries |-> Len(s.voices)]},
              !.nextTimer = @ + 1]

\* the entries of the registry get their ramp
rampAll(s) ==
    [s EXCEPT !.voices = [v \in DOMAIN @ |->
                            IF v \in s.activeSources THEN rampEntry(@[v])
                                                     ELSE @[v]]]

\* mutant: "duration < 0.05" instead of "duration <= 0.05"
fadeOutAllSounds_ltEps(s, duration) ==
    LET c == getAudioContext(s)
    IN  IF c.activeSources = {} THEN c
        ELSE IF duration < Epsilon THEN stopAllSounds(c)
        ELSE setFadeTimeout(rampAll(clearFadeTimeout(c)))

\* mutant: the existing fade timeout is not cleared before the new one is set
fadeOutAllSounds_noClear(s, duration) ==
    LET c == getAudioContext(s)
    IN  IF c.activeSources = {} THEN c
        ELSE IF duration <= Epsilon THEN stopAllSounds(c)
        ELSE setFadeTimeout(rampAll(c))

\* mutant: the "activeSources.size === 0" return is missing
fadeOutAllSounds_noEmptyCheck(s, duration) ==
    LET c == getAudioContext(s)
    IN  IF duration <= Epsilon THEN stopAllSounds(c)
        ELSE setFadeTimeout(rampAll(clearFadeTimeout(c)))

fadeOutAllSounds(s, duration) ==
    LET c == getAudioContext(s)
    IN  IF c.activeSources = {} THEN c
        ELSE IF duration <= Epsilon THEN stopAllSounds(c)
        ELSE setFadeTimeout(rampAll(clearFadeTimeout(c)))

\* mutant: the callback of the timeout empties the slot and stops nothing
fadeElapsed_slotOnly(s) == [s EXCEPT !.fadeTimeout = 0]

\* the callback of the timeout: () => { stopAllSounds(); }
fadeElapsed(s) == stopAllSounds(s)

\* --------------------------------------------------------- playAudioBlob
\* lines 100-126, run when decodeAudioData has resolved: solo enforcement,
\* then the new entry is created, registered and started
newEntry(blob, volume, toMaster) ==
    [blob |-> blob, volume |-> volume, gain |-> volume, ramp |-> FALSE,
     st |-> "playing", ended |-> FALSE, rampFrom |-> 0, toMaster |-> toMaster]

\* mutant: the gain of the new entry is set to the master level
startEntry_atMaster(s, blob, volume) ==
    [s EXCEPT !.voices = Append(@, [newEntry(blob, volume, s.hasMasterGain)
                                       EXCEPT !.gain = s.masterGainNode]),
              !.activeSources = @ \cup {Len(s.voices) + 1}]

\* createBufferSource ... activeSources.add(entry); source.start(0)
startEntry(s, blob, volume) ==
    [s EXCEPT !.voices = Append(@, newEntry(blob, volume, s.hasMasterGain)),
              !.activeSources = @ \cup {Len(s.voices) + 1}]

\* mutant: the solo step (stopAllSounds) is missing
playDecoded_noSolo(s, blob, volume) == startEntry(s, blob, volume)

\* mutant: a decode that resolves while a sound is registered is dropped
playDecoded_firstWins(s, blob, volume) ==
    IF s.activeSources # {} THEN s
    ELSE startEntry(stopAllSounds(s), blob, volume)

playDecoded(s, blob, volume) == startEntry(stopAllSounds(s), blob, volume)

\* mutant: the catch block stops everything as a clean-up
playCatch_stop(s) == stopAllSounds(s)

\* the catch block (lines 127-129): the error is logged, nothing else is done
playCatch(s) == s

\* mutant: the catch block rethrows, so the returned promise rejects
catchRethrows == "rejected"

\* the settlement of the promise an async function returns after its catch
\* block has handled the error
catchSettles == "fulfilled"

\* mutant: the callback empties the registry instead of deleting its entry
onended_clear(s, v) ==
    [s EXCEPT !.activeSources = {},
              !.voices[v] = unregistered([@ EXCEPT !.ended = TRUE])]

\* source.onended = () => activeSources.delete(entry)
onended(s, v) ==
    [s EXCEPT !.activeSources = @ \ {v},
              !.voices[v] = unregistered([@ EXCEPT !.ended = TRUE])]

\* ------------------------------------------------------------------ Init
Init ==
    /\ audioContext = FALSE
    /\ contexts = 0
    /\ ctxState \in {"suspended", "running"}
    /\ masterGainNode = 0
    /\ hasMasterGain = FALSE
    /\ activeSources = {}
    /\ voices = <<>>
    /\ fadeTimeout = 0
    /\ timers = {}
    /\ nextTimer = 1
    /\ calls = <<>>
    /\ stoppedBefore = {}
    /\ wav = NoWav
    /\ app = NoApp
    /\ kbd = NoKbd

\* --------------------------------------------------------------- actions
CallIds == 1..MaxCalls
TimerIds == 1..MaxTimers

TimerId(ts) == {t.id : t \in ts}

\* a caller invokes playAudioBlob(blob, volume): the call runs to its first
\* await (lines 91-97)
\* mutant: ctx.state is not looked at, the call goes straight to its decode
newCall_noResume(c, blob, volume) ==
    [blob |-> blob, volume |-> volume, pc |-> "decode",
     error |-> "none", logged |-> FALSE, promise |-> "pending",
     voice |-> 0, pending |-> FALSE]

newCall(c, blob, volume) ==
    [blob |-> blob, volume |-> volume,
     pc |-> IF c.ctxState = "suspended" THEN "resume" ELSE "decode",
     error |-> "none", logged |-> FALSE, promise |-> "pending",
     voice |-> 0, pending |-> FALSE]

\* mutant: the sound that is playing is stopped as soon as play is invoked
playInvoked_earlyStop(s) == stopAllSounds(getAudioContext(s))

\* what the call does to the module state before its first await: it gets the
\* context (line 92) and reads ctx.state (line 93)
playInvoked(s) == getAudioContext(s)

Play(blob, volume) ==
    /\ Len(calls) < MaxCalls
    /\ LET c == playInvoked(Coord)
       IN  /\ Becomes(c)
           /\ calls' = Append(calls, newCall(c, blob, volume))
    /\ UNCHANGED stoppedBefore

\* the call's failure path: the awaited promise rejected, the catch block runs
Caught(i) ==
    /\ Becomes(playCatch(Coord))
    /\ calls' = [calls EXCEPT ![i].pc = "done", ![i].error = calls[i].pc,
                              ![i].logged = TRUE,
                              ![i].pending = (fadeTimeout # 0),
                              ![i].promise = catchSettles]
    /\ UNCHANGED stoppedBefore

\* await ctx.resume() resolves
ResumeOk(i) ==
    /\ i \in DOMAIN calls /\ calls[i].pc = "resume"
    /\ Becomes([Coord EXCEPT !.ctxState = "running"])
    /\ calls' = [calls EXCEPT ![i].pc = "decode"]
    /\ UNCHANGED stoppedBefore

\* await ctx.resume() rejects
ResumeFail(i) ==
    /\ i \in DOMAIN calls /\ calls[i].pc = "resume"
    /\ ctxState = "suspended"
    /\ Caught(i)

\* blob.arrayBuffer() and ctx.decodeAudioData(arrayBuffer) have resolved: the
\* rest of the try block runs
DecodeOk(i) ==
    /\ i \in DOMAIN calls /\ calls[i].pc = "decode"
    /\ Decodable(calls[i].blob)
    /\ Becomes(playDecoded(Coord, calls[i].blob, calls[i].volume))
    /\ calls' = [calls EXCEPT ![i].pc = "done", ![i].promise = "fulfilled",
                              ![i].voice = Len(voices) + 1,
                              ![i].pending = (fadeTimeout # 0)]
    /\ UNCHANGED stoppedBefore

\* ctx.decodeAudioData(arrayBuffer) rejects
DecodeFail(i) ==
    /\ i \in DOMAIN calls /\ calls[i].pc = "decode"
    /\ ~Decodable(calls[i].blob)
    /\ Caught(i)

\* a caller invokes stopAllSounds()
StopAll ==
    /\ Becomes(stopAllSounds(Coord))
    /\ stoppedBefore' = stoppedBefore \cup TimerId(timers)
    /\ UNCHANGED calls

\* a caller invokes fadeOutAllSounds(duration)
FadeAll(duration) ==
    /\ (duration > Epsilon /\ activeSources # {}) => nextTimer <= MaxTimers
    /\ Becomes(fadeOutAllSounds(Coord, duration))
    /\ UNCHANGED <<calls, stoppedBefore>>

\* a caller invokes setMasterVolume(volume)
SetMasterVolume(volume) ==
    /\ Becomes(setMasterVolume(Coord, volume))
    /\ UNCHANGED <<calls, stoppedBefore>>

\* the timeout of fadeOutAllSounds fires: the browser drops the timer and
\* runs the callback, which calls stopAllSounds()
TimerFire(t) ==
    /\ t \in TimerId(timers)
    /\ Becomes(fadeElapsed([Coord EXCEPT
                               !.timers = {x \in @ : x.id # t}]))
    /\ UNCHANGED <<calls, stoppedBefore>>

\* the buffer of a playing source has played to its end: the source is
\* silent from now on; its ended event is queued, so the entry stays
\* registered until the event is dispatched
BufferEnds(v) ==
    /\ v \in DOMAIN voices /\ voices[v].st = "playing"
    /\ Becomes([Coord EXCEPT !.voices[v].st = "finished"])
    /\ UNCHANGED <<calls, stoppedBefore>>

\* the ended event of a source is dispatched, once: after the buffer has
\* played to its end, or after source.stop()
OnEnded(v) ==
    /\ v \in DOMAIN voices
    /\ voices[v].st \in {"finished", "stopped"} /\ ~voices[v].ended
    /\ Becomes(onended(Coord, v))
    /\ UNCHANGED <<calls, stoppedBefore>>

\* the audio clock advances along a scheduled ramp: the gain of a fading,
\* playing entry goes down one unit towards 0
RampProgress(v) ==
    /\ v \in DOMAIN voices
    /\ voices[v].st = "playing" /\ voices[v].ramp /\ voices[v].gain > 0
    /\ Becomes([Coord EXCEPT !.voices[v].gain = @ - 1])
    /\ UNCHANGED <<calls, stoppedBefore>>

Next ==
    \/ \E pad \in Pads : Play(pad[1], pad[2])
    \/ \E i \in CallIds : ResumeOk(i)
    \/ \E i \in CallIds : ResumeFail(i)
    \/ \E i \in CallIds : DecodeOk(i)
    \/ \E i \in CallIds : DecodeFail(i)
    \/ StopAll
    \/ \E duration \in Durations : FadeAll(duration)
    \/ \E volume \in Levels : SetMasterVolume(volume)
    \/ \E t \in TimerIds : TimerFire(t)
    \/ \E v \in CallIds : BufferEnds(v)
    \/ \E v \in CallIds : OnEnded(v)
    \/ \E v \in CallIds : RampProgress(v)

Spec == Init /\ [][Next]_vars

\* ------------------------------------------------- two plays in one tick
\* The state after playAudioBlob(A, 0.5) and playAudioBlob(B, 1.0) have been
\* called in the same tick of a fresh page: both calls have run to their
\* first await, nothing else has happened.
InitTick ==
    /\ ctxState \in {"suspended", "running"}
    /\ audioContext = TRUE
    /\ contexts = 1
    /\ masterGainNode = MasterInit
    /\ hasMasterGain = TRUE
    /\ activeSources = {}
    /\ voices = <<>>
    /\ fadeTimeout = 0
    /\ timers = {}
    /\ nextTimer = 1
    /\ calls = <<newCall([ctxState |-> ctxState], "A", 1),
                 newCall([ctxState |-> ctxState], "B", DefaultVolume)>>
    /\ stoppedBefore = {}
    /\ wav = NoWav
    /\ app = NoApp
    /\ kbd = NoKbd

\* every step but a further playAudioBlob call
NextTick ==
    \/ \E i \in CallIds : ResumeOk(i)
    \/ \E i \in CallIds : ResumeFail(i)
    \/ \E i \in CallIds : DecodeOk(i)
    \/ StopAll
    \/ \E duration \in Durations : FadeAll(duration)
    \/ \E volume \in Levels : SetMasterVolume(volume)
    \/ \E t \in TimerIds : TimerFire(t)
    \/ \E v \in CallIds : BufferEnds(v)
    \/ \E v \in CallIds : OnEnded(v)
    \/ \E v \in CallIds : RampProgress(v)

SpecTick == InitTick /\ [][NextTick]_vars

\* ------------------------------------------- a fade that is left alone
\* The module state of a fresh page whose context starts running.
Fresh ==
    [audioContext |-> FALSE, contexts |-> 0, ctxState |-> "running",
     masterGainNode |-> 0,
     hasMasterGain |-> FALSE, activeSources |-> {}, voices |-> <<>>,
     fadeTimeout |-> 0, timers |-> {}, nextTimer |-> 1]

\* the module state after pad p was played on a fresh page, its decode
\* resolved, and fadeOutAllSounds(2) was called
FadeStarted(p) ==
    fadeOutAllSounds(playDecoded(playInvoked(Fresh), p[1], p[2]), 200)

\* The states right after that fadeOutAllSounds(2): the call that played p is
\* over and owns entry 1; either no other call was made, or one more call,
\* made before the fade, is still waiting for its decode.
InitQuiet ==
    \E p \in {pad \in Pads : Decodable(pad[1])} :
        /\ audioContext = FadeStarted(p).audioContext
        /\ contexts = FadeStarted(p).contexts
        /\ ctxState = FadeStarted(p).ctxState
        /\ masterGainNode = FadeStarted(p).masterGainNode
        /\ hasMasterGain = FadeStarted(p).hasMasterGain
        /\ activeSources = FadeStarted(p).activeSources
        /\ voices = FadeStarted(p).voices
        /\ fadeTimeout = FadeStarted(p).fadeTimeout
        /\ timers = FadeStarted(p).timers
        /\ nextTimer = FadeStarted(p).nextTimer
        /\ \E waiting \in {<<>>} \cup {<<newCall(Fresh, q[1], q[2])>> : q \in Pads} :
              calls = <<[newCall(Fresh, p[1], p[2]) EXCEPT
                            !.pc = "done", !.promise = "fulfilled",
                            !.voice = 1]>> \o waiting
        /\ stoppedBefore = {}
        /\ wav = NoWav
        /\ app = NoApp
        /\ kbd = NoKbd

\* every step but a further playAudioBlob, stopAllSounds or fadeOutAllSounds
\* call (the context is running, so no call waits for a resume)
NextQuiet ==
    \/ \E i \in CallIds : DecodeOk(i)
    \/ \E i \in CallIds : DecodeFail(i)
    \/ \E volume \in Levels : SetMasterVolume(volume)
    \/ \E t \in TimerIds : TimerFire(t)
    \/ \E v \in CallIds : BufferEnds(v)
    \/ \E v \in CallIds : OnEnded(v)
    \/ \E v \in CallIds : RampProgress(v)

\* a timeout set with window.setTimeout and not cleared fires once its delay
\* has elapsed: the browser's event loop does not starve it
SpecQuiet ==
    InitQuiet /\ [][NextQuiet]_vars /\ WF_vars(\E t \in TimerIds : TimerFire(t))

\* ------------------------------------------ services/gemini: the WAV file
\* the raw PCM byte sequences: every sequence of up to MaxSamples bytes
SampleBytes == {0, 1, 255}
Samples == UNION {[1..n -> SampleBytes] : n \in 0..MaxSamples}

\* (sampleRate, numChannels, bitDepth): what generateSpeech passes, CD
\* stereo, 8-bit telephone mono, 24-bit stereo and 12-bit mono
WavParams ==
    {<<24000, 1, 16>>, <<44100, 2, 16>>, <<8000, 1, 8>>, <<48000, 2, 24>>,
     <<24000, 1, 12>>}

\* the char codes of 'RIFF', 'WAVE', 'fmt ' and 'data'
RIFF == <<82, 73, 70, 70>>
WAVE == <<87, 65, 86, 69>>
fmt == <<102, 109, 116, 32>>
data == <<100, 97, 116, 97>>

\* new ArrayBuffer(n): n zero bytes, at offsets 0 .. n - 1
ArrayBuffer(n) == [i \in 0..(n - 1) |-> 0]

\* DataView.setUint8 / setUint16 / setUint32 with littleEndian = true: the
\* value is taken modulo 2^8, 2^16, 2^32 and stored low byte first
setUint8(view, offset, value) == [view EXCEPT ![offset] = value % 256]

setUint16(view, offset, value) ==
    [view EXCEPT ![offset] = value % 256,
                 ![offset + 1] = (value \div 256) % 256]

setUint32(view, offset, value) ==
    [view EXCEPT ![offset] = value % 256,
                 ![offset + 1] = (value \div 256) % 256,
                 ![offset + 2] = (value \div 65536) % 256,
                 ![offset + 3] = (value \div 16777216) % 256]

\* for (i = 0; i < string.length; i++) view.setUint8(offset + i, charCode)
RECURSIVE writeString(_, _, _)
writeString(view, offset, string) ==
    IF string = <<>> THEN view
    ELSE writeString(setUint8(view, offset, Head(string)), offset + 1,
                     Tail(string))

\* n * (bitDepth / 8) as setUint16 / setUint32 store it: the product is a
\* number, possibly with a fraction, and the setter drops the fraction
timesBytesPerSample(n, bitDepth) == (n * bitDepth) \div 8

\* new Uint8Array(buffer, 44).set(samples)
setSamples(view, samples) ==
    [i \in DOMAIN view |-> IF i >= 44 THEN samples[i - 43] ELSE view[i]]

\* mutant: the RIFF chunk length is the length of the whole file
createWavFile_chunkIsFile(samples, sampleRate, numChannels, bitDepth) ==
    LET v0 == writeString(ArrayBuffer(44 + Len(samples)), 0, RIFF)
        v1 == setUint32(v0, 4, 44 + Len(samples))
        v2 == writeString(writeString(v1, 8, WAVE), 12, fmt)
        v3 == setUint16(setUint32(v2, 16, 16), 20, 1)
        v4 == setUint32(setUint16(v3, 22, numChannels), 24, sampleRate)
        v5 == setUint32(v4, 28, timesBytesPerSample(sampleRate * numChannels,
                                                    bitDepth))
        v6 == setUint16(v5, 32, timesBytesPerSample(numChannels, bitDepth))
        v7 == writeString(setUint16(v6, 34, bitDepth), 36, data)
        v8 == setUint32(v7, 40, Len(samples))
    IN  setSamples(v8, samples)

\* createWavFile: the 44 header bytes, then the samples
createWavFile(samples, sampleRate, numChannels, bitDepth) ==
    LET v0 == writeString(ArrayBuffer(44 + Len(samples)), 0, RIFF)
        v1 == setUint32(v0, 4, 36 + Len(samples))
        v2 == writeString(writeString(v1, 8, WAVE), 12, fmt)
        v3 == setUint16(setUint32(v2, 16, 16), 20, 1)
        v4 == setUint32(setUint16(v3, 22, numChannels), 24, sampleRate)
        v5 == setUint32(v4, 28, timesBytesPerSample(sampleRate * numChannels,
                                                    bitDepth))
        v6 == setUint16(v5, 32, timesBytesPerSample(numChannels, bitDepth))
        v7 == writeString(setUint16(v6, 34, bitDepth), 36, data)
        v8 == setUint32(v7, 40, Len(samples))
    IN  setSamples(v8, samples)

\* mutant: the PCM bytes are declared as 16-bit stereo
wrapPcm_stereo(bytes) ==
    [samples |-> bytes, by |-> "generateSpeech", sampleRate |-> 24000,
     numChannels |-> 2, bitDepth |-> 16,
     file |-> createWavFile(bytes, 24000, 2, 16)]

\* the end of generateSpeech: createWavFile(bytes, 24000, 1, 16), where
\* bytes are the PCM bytes decoded from the response
wrapPcm(bytes) ==
    [samples |-> bytes, by |-> "generateSpeech", sampleRate |-> 24000,
     numChannels |-> 1, bitDepth |-> 16,
     file |-> createWavFile(bytes, 24000, 1, 16)]

\* the variables of utils/audio
audioVars ==
    <<audioContext, contexts, ctxState, masterGainNode, hasMasterGain,
      activeSources, voices, fadeTimeout, timers, nextTimer, calls,
      stoppedBefore>>

\* PCM bytes are at hand, nothing has been wrapped, the page is fresh
InitWav ==
    /\ audioContext = Fresh.audioContext
    /\ contexts = Fresh.contexts
    /\ ctxState = Fresh.ctxState
    /\ masterGainNode = Fresh.masterGainNode
    /\ hasMasterGain = Fresh.hasMasterGain
    /\ activeSources = Fresh.activeSources
    /\ voices = Fresh.voices
    /\ fadeTimeout = Fresh.fadeTimeout
    /\ timers = Fresh.timers
    /\ nextTimer = Fresh.nextTimer
    /\ calls = <<>>
    /\ stoppedBefore = {}
    /\ wav \in {[NoWav EXCEPT !.samples = x] : x \in Samples}
    /\ app = NoApp
    /\ kbd = NoKbd

\* createWavFile(samples, sampleRate, numChannels, bitDepth) is called
CreateWavFile(p) ==
    /\ wav.by = "none"
    /\ wav' = [samples |-> wav.samples, by |-> "createWavFile",
               sampleRate |-> p[1], numChannels |-> p[2], bitDepth |-> p[3],
               file |-> createWavFile(wav.samples, p[1], p[2], p[3])]
    /\ UNCHANGED <<audioVars, app, kbd>>

\* generateSpeech has decoded the PCM bytes of the response and wraps them
GenerateSpeech ==
    /\ wav.by = "none"
    /\ wav' = wrapPcm(wav.samples)
    /\ UNCHANGED <<audioVars, app, kbd>>

NextWav ==
    \/ \E p \in WavParams : CreateWavFile(p)
    \/ GenerateSpeech

SpecWav == InitWav /\ [][NextWav]_vars

\* ================================================== the board (App, Pad)
\* An optional field (shortcut?, audioBlob?, string | null) is <<>> when it
\* is undefined or null and <<v>> when it holds v.

\* `pad-${i}`
PadId(i) == "pad-" \o ToString(i)

\* Array.prototype.find: the first element that passes the test, if any
find(s, Test(_)) ==
    LET hits == {i \in 1..Len(s) : Test(s[i])}
    IN  IF hits = {} THEN <<>>
        ELSE <<s[CHOOSE i \in hits : \A j \in hits : i <= j]>>

\* Array.prototype.map with "p.id === id ? pad : p"
replacePad(prev, id, pad) ==
    [k \in 1..Len(prev) |-> IF prev[k].id = id THEN pad ELSE prev[k]]

\* the pad an empty slot shows
emptyPad(id) ==
    [id |-> id, name |-> "Empty", color |-> "SLATE",
     volume |-> DefaultVolume, shortcut |-> <<>>, audioBlob |-> <<>>]

skeletonPads == [i \in 1..TOTAL_PADS |-> emptyPad(PadId(i - 1))]

\* initPads when getPadsFromDB resolves with storedPads: a stored pad takes
\* the place of the skeleton pad with its id
mergeStored(storedPads) ==
    [k \in 1..TOTAL_PADS |->
        LET sk == skeletonPads[k]
            found == find(storedPads, LAMBDA sp : sp.id = sk.id)
        IN  IF found # <<>> THEN found[1] ELSE sk]

\* ----------------------------------------------------------- key events
Modifiers == {"Control", "Shift", "Alt", "Meta"}

\* String.prototype.toUpperCase on the one-character keys of KeyNames
toUpperCase(c) ==
    CASE c = "a" -> "A"
      [] c = "z" -> "Z"
      [] OTHER -> c

\* Array.prototype.join('+')
RECURSIVE join(_)
join(parts) ==
    IF parts = <<>> THEN ""
    ELSE IF Len(parts) = 1 THEN parts[1]
    ELSE parts[1] \o "+" \o join(Tail(parts))

\* the combination string the global key listener computes
globalCombo(e) ==
    LET parts == (IF e.ctrlKey THEN <<"Ctrl">> ELSE <<>>)
                 \o (IF e.shiftKey THEN <<"Shift">> ELSE <<>>)
                 \o (IF e.altKey THEN <<"Alt">> ELSE <<>>)
                 \o (IF e.metaKey THEN <<"Meta">> ELSE <<>>)
        space == IF e.key = " " THEN "Space" ELSE e.key
        key == IF Len(space) = 1 THEN toUpperCase(space) ELSE space
    IN  join(parts \o <<key>>)

\* the combination string the listener looks up, if it gets that far
comboHeard(e) ==
    IF e.target \in {"input", "textarea"} THEN <<>>
    ELSE IF e.key \in Modifiers THEN <<>>
    ELSE <<globalCombo(e)>>

\* mutant: the listener also answers key presses in text fields
handleGlobalKeyDown_anyTarget(pads, e) ==
    IF e.key \in Modifiers THEN <<>>
    ELSE LET combo == globalCombo(e)
             pad == find(pads, LAMBDA p : p.shortcut = <<combo>>)
         IN  IF pad # <<>> /\ pad[1].audioBlob # <<>>
             THEN <<[blob |-> pad[1].audioBlob[1], volume |-> pad[1].volume]>>
             ELSE <<>>

\* handleGlobalKeyDown: the playAudioBlob calls it makes, as (blob, volume)
handleGlobalKeyDown(pads, e) ==
    IF comboHeard(e) = <<>> THEN <<>>
    ELSE LET combo == comboHeard(e)[1]
             pad == find(pads, LAMBDA p : p.shortcut = <<combo>>)
         IN  IF pad # <<>> /\ pad[1].audioBlob # <<>>
             THEN <<[blob |-> pad[1].audioBlob[1], volume |-> pad[1].volume]>>
             ELSE <<>>

\* mutant: the recorder names Shift before Ctrl
handleShortcutKeyDown_shiftFirst(shortcut, e) ==
    IF e.key \in Modifiers THEN shortcut
    ELSE IF e.key = "Backspace" \/ e.key = "Delete" THEN ""
    ELSE LET parts == (IF e.shiftKey THEN <<"Shift">> ELSE <<>>)
                      \o (IF e.ctrlKey THEN <<"Ctrl">> ELSE <<>>)
                      \o (IF e.altKey THEN <<"Alt">> ELSE <<>>)
                      \o (IF e.metaKey THEN <<"Meta">> ELSE <<>>)
             space == IF e.key = " " THEN "Space" ELSE e.key
             key == IF Len(space) = 1 THEN toUpperCase(space) ELSE space
         IN  join(parts \o <<key>>)

\* handleShortcutKeyDown of the edit modal: the value of its shortcut state
\* after the event, given the value before
handleShortcutKeyDown(shortcut, e) ==
    IF e.key \in Modifiers THEN shortcut
    ELSE IF e.key = "Backspace" \/ e.key = "Delete" THEN ""
    ELSE LET parts == (IF e.ctrlKey THEN <<"Ctrl">> ELSE <<>>)
                      \o (IF e.shiftKey THEN <<"Shift">> ELSE <<>>)
                      \o (IF e.altKey THEN <<"Alt">> ELSE <<>>)
                      \o (IF e.metaKey THEN <<"Meta">> ELSE <<>>)
             space == IF e.key = " " THEN "Space" ELSE e.key
             key == IF Len(space) = 1 THEN toUpperCase(space) ELSE space
         IN  join(parts \o <<key>>)

\* ------------------------------------------------------------- handlers
\* handlePlayClick of pad data: the playAudioBlob calls it makes
handlePlayClick(isEditMode, pad) ==
    IF isEditMode THEN <<>>
    ELSE IF pad.audioBlob = <<>> THEN <<>>
    ELSE <<[blob |-> pad.audioBlob[1], volume |-> pad.volume]>>

\* handleEditPad
handleEditPad(a, id) ==
    [a EXCEPT !.editingPadId = <<id>>, !.isModalOpen = TRUE]

\* handleSavePad: the pad list after it
handleSavePad(a, name, color, blob, volume, shortcut) ==
    IF a.editingPadId = <<>> THEN a.pads
    ELSE LET editingPadId == a.editingPadId[1]
             existingPad == find(a.pads, LAMBDA p : p.id = editingPadId)
             finalBlob == IF blob # <<>> THEN blob
                          ELSE IF existingPad # <<>>
                               THEN existingPad[1].audioBlob
                               ELSE <<>>
             newPadData == [id |-> editingPadId, name |-> name,
                            color |-> color, volume |-> volume,
                            shortcut |-> <<shortcut>>,
                            audioBlob |-> finalBlob]
         IN  IF finalBlob = <<>> THEN a.pads
             ELSE replacePad(a.pads, editingPadId, newPadData)

\* mutant: deleting a pad clears the whole board
handleDeletePad_all(pads, id, confirmed) ==
    IF ~confirmed THEN pads
    ELSE [k \in 1..Len(pads) |-> emptyPad(pads[k].id)]

\* handleDeletePad when window.confirm returns confirmed
handleDeletePad(pads, id, confirmed) ==
    IF ~confirmed THEN pads
    ELSE replacePad(pads, id, emptyPad(id))

\* the props the modal takes from the pad being edited, with its defaults
initialProps(a) ==
    LET activePad == IF a.editingPadId = <<>> THEN <<>>
                     ELSE find(a.pads, LAMBDA p : p.id = a.editingPadId[1])
    IN  IF activePad = <<>>
        THEN [name |-> "", color |-> "BLUE", volume |-> DefaultVolume,
              shortcut |-> ""]
        ELSE [name |-> activePad[1].name, color |-> activePad[1].color,
              volume |-> activePad[1].volume,
              shortcut |-> IF activePad[1].shortcut = <<>> THEN ""
                           ELSE activePad[1].shortcut[1]]

\* the render after a handler took App from a to b: the modal's effect
\* resets its state when it has opened or its initial props have changed.
\* The state of a closed modal is shown nowhere and is reset before it is
\* shown again, so it is kept as ''.
rendered(a, b) ==
    IF ~b.isModalOpen THEN [b EXCEPT !.shortcut = ""]
    ELSE IF ~a.isModalOpen \/ initialProps(a) # initialProps(b)
    THEN [b EXCEPT !.shortcut = initialProps(b).shortcut]
    ELSE b

\* ----------------------------------------------------------------- inputs
\* the pads the user clicks, edits and deletes: first, one inside, last
Touched == {0, 7, TOTAL_PADS - 1}

KeyNames ==
    {"a", "A", "z", "1", " ", "Enter", "F1", "Backspace", "Delete"}
        \cup Modifiers

Targets == {"body", "input", "textarea"}

KeyEvents ==
    [key : KeyNames, ctrlKey : BOOLEAN, shiftKey : BOOLEAN,
     altKey : BOOLEAN, metaKey : BOOLEAN]

At(e, target) ==
    [key |-> e.key, ctrlKey |-> e.ctrlKey, shiftKey |-> e.shiftKey,
     altKey |-> e.altKey, metaKey |-> e.metaKey, target |-> target]

Key(k, ctrl, shift) ==
    [key |-> k, ctrlKey |-> ctrl, shiftKey |-> shift, altKey |-> FALSE,
     metaKey |-> FALSE]

\* the keys pressed on the board and in the modal
Pressed ==
    {Key("a", FALSE, FALSE), Key(" ", TRUE, TRUE), Key("Shift", FALSE, TRUE),
     Key("Backspace", FALSE, FALSE)}

\* a pad as savePadToDB was given it in an earlier session
storedPad(i, blob, volume, shortcut) ==
    [id |-> PadId(i), name |-> "Clip", color |-> "BLUE", volume |-> volume,
     shortcut |-> <<shortcut>>, audioBlob |-> <<blob>>]

\* what getPadsFromDB resolves with: nothing, two pads with the same
\* shortcut, a pad of a larger grid and the same pad twice
StoredPads ==
    {<<>>,
     <<storedPad(7, "B", 2, "A"), storedPad(0, "A", 1, "A")>>,
     <<storedPad(TOTAL_PADS, "B", 2, "A"), storedPad(7, "A", 1, ""),
       storedPad(7, "B", 2, "A")>>}

\* the keydown events that reach the window listener, as (event, target)
Presses ==
    {<<Key("a", FALSE, FALSE), "body">>, <<Key("a", FALSE, FALSE), "input">>,
     <<Key("a", FALSE, FALSE), "textarea">>,
     <<Key(" ", TRUE, TRUE), "body">>, <<Key("Shift", FALSE, TRUE), "body">>}

\* what the modal hands to onSave besides the shortcut: no new blob and
\* volume 0.5, or blob A and volume 1.0
Forms ==
    {[name |-> "Clip", color |-> "BLUE", blob |-> <<>>, volume |-> 1],
     [name |-> "Clip", color |-> "BLUE", blob |-> <<"A">>,
      volume |-> DefaultVolume]}

\* ---------------------------------------------------------------- actions
\* the speech service and utils/audio are idle
Idle == UNCHANGED <<audioVars, wav, kbd>>

\* handler h with argument x has run and made the playAudioBlob calls played
Ran(a, h, x, played) ==
    /\ app' = rendered(app, [a EXCEPT !.by = [handler |-> h, arg |-> x],
                                      !.played = played])
    /\ Idle

\* another handler has run: it calls playAudioBlob nowhere
RanOther(a) ==
    /\ app' = rendered(app, [a EXCEPT !.by = [handler |-> "other"],
                                      !.played = <<>>])
    /\ Idle

InitApp ==
    /\ audioContext = Fresh.audioContext
    /\ contexts = Fresh.contexts
    /\ ctxState = Fresh.ctxState
    /\ masterGainNode = Fresh.masterGainNode
    /\ hasMasterGain = Fresh.hasMasterGain
    /\ activeSources = Fresh.activeSources
    /\ voices = Fresh.voices
    /\ fadeTimeout = Fresh.fadeTimeout
    /\ timers = Fresh.timers
    /\ nextTimer = Fresh.nextTimer
    /\ calls = <<>>
    /\ stoppedBefore = {}
    /\ wav = NoWav
    /\ app = NoApp
    /\ kbd = NoKbd

\* getPadsFromDB resolves
InitPadsOk(storedPads) ==
    /\ app.initPads = "pending"
    /\ RanOther([app EXCEPT !.initPads = "loaded",
                            !.pads = mergeStored(storedPads)])

\* getPadsFromDB rejects
InitPadsFail ==
    /\ app.initPads = "pending"
    /\ RanOther([app EXCEPT !.initPads = "failed", !.pads = skeletonPads])

\* the Play and Edit buttons of the mode toggle
SetIsEditMode(b) ==
    /\ app.isEditMode # b
    /\ RanOther([app EXCEPT !.isEditMode = b])

\* handleClick of the pad at index i
PadClick(i) ==
    /\ i < Len(app.pads)
    /\ LET pad == app.pads[i + 1]
       IN  IF app.isEditMode
           THEN Ran(handleEditPad(app, pad.id), "click", i, <<>>)
           ELSE Ran(app, "click", i, handlePlayClick(app.isEditMode, pad))

\* a keydown event reaches the window listener
GlobalKeyDown(e, target) ==
    /\ app.initPads # "pending"
    /\ Ran(app, "key", At(e, target),
           handleGlobalKeyDown(app.pads, At(e, target)))

\* a keydown event in the shortcut field of the open modal; the field is an
\* input element, so the window listener makes nothing of it
ShortcutKeyDown(e) ==
    /\ app.isModalOpen
    /\ RanOther([app EXCEPT
                   !.shortcut = handleShortcutKeyDown(app.shortcut, e)])

\* handleSave of the modal: onSave, then onClose
HandleSave(f) ==
    /\ app.isModalOpen
    /\ app.edits < MaxEdits
    /\ RanOther([app EXCEPT
                   !.pads = handleSavePad(app, f.name, f.color, f.blob,
                                          f.volume, app.shortcut),
                   !.isModalOpen = FALSE,
                   !.edits = @ + 1])

\* the modal is closed without saving
CloseModal ==
    /\ app.isModalOpen
    /\ RanOther([app EXCEPT !.isModalOpen = FALSE])

\* the delete button, which a pad with audio shows in edit mode
DeletePad(i, confirmed) ==
    /\ i < Len(app.pads)
    /\ app.isEditMode
    /\ app.pads[i + 1].audioBlob # <<>>
    /\ app.edits < MaxEdits
    /\ RanOther([app EXCEPT
                   !.pads = handleDeletePad(app.pads, app.pads[i + 1].id,
                                            confirmed),
                   !.edits = @ + 1])

NextApp ==
    \/ \E storedPads \in StoredPads : InitPadsOk(storedPads)
    \/ InitPadsFail
    \/ \E b \in BOOLEAN : SetIsEditMode(b)
    \/ \E i \in Touched : PadClick(i)
    \/ \E p \in Presses : GlobalKeyDown(p[1], p[2])
    \/ \E e \in Pressed : ShortcutKeyDown(e)
    \/ \E f \in Forms : HandleSave(f)
    \/ CloseModal
    \/ \E i \in Touched, confirmed \in BOOLEAN : DeletePad(i, confirmed)

SpecApp == InitApp /\ [][NextApp]_vars

\* -------------------------------------------- one key, recorded and heard
\* the board after the pad at index 7, edited in the modal, was saved with
\* blob A and the shortcut the modal holds
savedWith(shortcut) ==
    handleSavePad([NoApp EXCEPT !.pads = skeletonPads,
                                !.editingPadId = <<PadId(7)>>],
                  "Clip", "BLUE", <<"A">>, DefaultVolume, shortcut)

\* a key, with the modifiers held, is about to be pressed in the shortcut
\* field of a modal that holds no shortcut
InitKeys ==
    /\ audioContext = Fresh.audioContext
    /\ contexts = Fresh.contexts
    /\ ctxState = Fresh.ctxState
    /\ masterGainNode = Fresh.masterGainNode
    /\ hasMasterGain = Fresh.hasMasterGain
    /\ activeSources = Fresh.activeSources
    /\ voices = Fresh.voices
    /\ fadeTimeout = Fresh.fadeTimeout
    /\ timers = Fresh.timers
    /\ nextTimer = Fresh.nextTimer
    /\ calls = <<>>
    /\ stoppedBefore = {}
    /\ wav = NoWav
    /\ app = NoApp
    /\ kbd \in {[NoKbd EXCEPT !.e = <<e>>] : e \in KeyEvents}

\* the modal's handleShortcutKeyDown takes the event
Record ==
    /\ kbd.recorded = <<>>
    /\ kbd' = [kbd EXCEPT
                 !.recorded = <<handleShortcutKeyDown("", kbd.e[1])>>]
    /\ UNCHANGED <<audioVars, wav, app>>

\* the pad is saved with what was recorded; later the same key, with the
\* same modifiers held, is pressed on target and reaches the window listener
Listen(target) ==
    /\ kbd.recorded # <<>>
    /\ kbd.heard = <<>>
    /\ kbd' = [kbd EXCEPT
                 !.heard = <<[target |-> target,
                              combo |-> comboHeard(At(kbd.e[1], target)),
                              played |-> handleGlobalKeyDown(
                                            savedWith(kbd.recorded[1]),
                                            At(kbd.e[1], target))]>>]
    /\ UNCHANGED <<audioVars, wav, app>>

NextKeys ==
    \/ Record
    \/ \E target \in Targets : Listen(target)

SpecKeys == InitKeys /\ [][NextKeys]_vars


\* ================================================================ claims
\* what a caller can observe of the registry and the pending fade
Observed(s) ==
    [activeSources |-> s.activeSources, voices |-> s.voices,
     fadeTimeout |-> s.fadeTimeout, timers |-> s.timers]

Done(i) == i \in DOMAIN calls /\ calls[i].pc = "done"
Failed(i) == calls[i].error # "none"

\* C1: in every reachable state the registry (activeSources) holds at most
\* one entry, whatever the interleaving of plays, decodes, stops, fades,
\* ended events and fade timeouts.
C1_Solo == Cardinality(activeSources) <= 1

\* a second play has registered its entry while the first was still
\* registered: the first is stopped, the second is the only one registered
C1_Witness ==
    /\ Len(voices) >= 2
    /\ voices[1].st = "stopped"
    /\ activeSources = {2}
    /\ \E i \in DOMAIN calls : calls[i].voice = 2

\* C2: in every reachable state stopAllSounds() yields an empty registry, an
\* empty fadeTimeout slot and no scheduled timeout, and a second
\* stopAllSounds() right after changes nothing.
C2_StopAllEmpties ==
    LET r == stopAllSounds(Coord)
    IN  /\ r.activeSources = {}
        /\ r.fadeTimeout = 0
        /\ r.timers = {}
        /\ stopAllSounds(r) = r

\* a caller's stopAllSounds() has acted on a state with a pending fade:
\* nothing is registered, nothing is pending, the faded entry is stopped
C2_Witness ==
    /\ stoppedBefore # {}
    /\ activeSources = {} /\ fadeTimeout = 0 /\ timers = {}
    /\ \E v \in DOMAIN voices : voices[v].st = "stopped"

\* C3 as claimed: in every reachable state, for every duration <= 0.05,
\* fadeOutAllSounds(duration) and stopAllSounds() leave the same registry
\* and the same pending fade.
C3_FadeZeroIsStopAll ==
    \A d \in Durations :
        d <= Epsilon =>
            Observed(fadeOutAllSounds(Coord, d)) = Observed(stopAllSounds(Coord))

\* C3 as amended: for every duration <= 0.05, fadeOutAllSounds(duration) and
\* stopAllSounds() leave the same registry and pending fade in every
\* reachable state whose registry is not empty; with an empty registry
\* fadeOutAllSounds changes neither the registry nor the pending fade, so a
\* timeout that is still pending stays scheduled.
C3_FadeZeroIsStopAllWhenActive ==
    \A d \in Durations :
        d <= Epsilon =>
            IF activeSources # {}
            THEN /\ Observed(fadeOutAllSounds(Coord, d))
                        = Observed(stopAllSounds(Coord))
                 /\ fadeOutAllSounds(Coord, d).activeSources = {}
                 /\ fadeOutAllSounds(Coord, d).fadeTimeout = 0
            ELSE Observed(fadeOutAllSounds(Coord, d)) = Observed(Coord)

\* an entry is registered and fading: fadeOutAllSounds(0.05) has the
\* registry and the pending timeout to clear
C3_Witness ==
    /\ activeSources # {}
    /\ fadeTimeout # 0
    /\ Observed(fadeOutAllSounds(Coord, Epsilon)) # Observed(Coord)

\* C4: a fade timeout that was pending when a caller invoked stopAllSounds()
\* never fires afterwards and is never scheduled again.
C4_NoOrphanAfterStop ==
    [][/\ \A t \in TimerIds : TimerFire(t) => t \notin stoppedBefore
       /\ TimerId(timers') \cap stoppedBefore' = {}]_vars

\* stopAllSounds() was called during a fade, and a later fade is pending
C4_Witness ==
    /\ stoppedBefore # {}
    /\ fadeTimeout # 0
    /\ fadeTimeout \notin stoppedBefore

\* C5: when a play registers its entry no fade timeout is left scheduled,
\* and a fade timeout that fires finds registered only entries that were
\* created before it was scheduled.
C5_FadeNeverKillsNewer ==
    [][/\ \A i \in CallIds : DecodeOk(i) => timers' = {} /\ fadeTimeout' = 0
       /\ \A x \in timers :
              TimerFire(x.id) => \A v \in activeSources : v <= x.entries]_vars

\* a play resolved during a fade, cleared the fade's timeout, and its entry
\* is still registered and playing
C5_Witness ==
    \E i \in DOMAIN calls :
        /\ calls[i].pending
        /\ calls[i].voice \in activeSources
        /\ voices[calls[i].voice].st = "playing"

\* C6: at most one fade timeout is scheduled, and fadeTimeout is non-empty
\* exactly when one is scheduled, which is then the one it holds.
C6_OnePendingFade ==
    /\ Cardinality(timers) <= 1
    /\ (fadeTimeout # 0) <=> (timers # {})
    /\ TimerId(timers) \subseteq {fadeTimeout}

\* a second fade has replaced the first: the first timeout neither fired
\* nor was stopped by a caller, the second is the one pending
C6_Witness ==
    /\ fadeTimeout = 2
    /\ TimerId(timers) = {2}
    /\ activeSources = {1}
    /\ stoppedBefore = {}

\* C7: the step in which a call's decode fails changes neither the registry
\* nor any entry (state, gain, ramp) nor the pending fade, and registers no
\* entry for the call.
C7_DecodeFailNoEffect ==
    [][\A i \in CallIds :
          DecodeFail(i) =>
              /\ UNCHANGED <<activeSources, voices, fadeTimeout, timers>>
              /\ calls'[i].voice = 0]_vars

\* a decode has failed while an entry was registered and fading: the entry
\* is still registered, playing and fading, and a fade timeout is pending
C7_Witness ==
    \E i \in DOMAIN calls :
        /\ Done(i) /\ calls[i].error = "decode"
        /\ activeSources # {}
        /\ \A v \in activeSources : voices[v].st = "playing" /\ voices[v].ramp
        /\ calls[i].pending
        /\ fadeTimeout # 0

BothComplete ==
    /\ 2 \in DOMAIN calls
    /\ ~(Done(1) /\ Done(2))
    /\ calls'[1].pc = "done" /\ calls'[2].pc = "done"
    /\ calls'[1].error = "none" /\ calls'[2].error = "none"

\* the registry after the step holds exactly the entry of call i, bound to
\* the call's payload, at the call's volume, playing
OnlyEntryOf(i) ==
    /\ activeSources' = {calls'[i].voice}
    /\ calls'[i].voice \in DOMAIN voices'
    /\ voices'[calls'[i].voice].blob = calls'[i].blob
    /\ voices'[calls'[i].voice].gain = calls'[i].volume
    /\ voices'[calls'[i].voice].st = "playing"

\* C9 as claimed: after play(A, 0.5) and play(B, 1.0) in the same tick, once
\* both calls have completed with their decodes resolved, the registry holds
\* exactly one entry, bound to B at gain 1.0.
C9_SecondCallWins ==
    [][BothComplete =>
          /\ OnlyEntryOf(2)
          /\ voices'[calls'[2].voice].blob = "B"
          /\ voices'[calls'[2].voice].gain = DefaultVolume]_vars

\* C9 as amended: after play(A, 0.5) and play(B, 1.0) in the same tick, once
\* both calls have completed with their decodes resolved, the registry holds
\* exactly one entry, that of the call whose decode resolved last, at that
\* call's volume: B at 1.0 if B's decode resolved after A's, A at 0.5 if A's
\* decode resolved after B's; the other call's entry is not registered.
C9_LastDecodeWins ==
    [][BothComplete =>
          /\ DecodeOk(1) => OnlyEntryOf(1) /\ voices'[calls'[1].voice].blob = "A"
                            /\ voices'[calls'[1].voice].gain = 1
                            /\ calls'[2].voice \notin activeSources'
          /\ DecodeOk(2) => OnlyEntryOf(2) /\ voices'[calls'[2].voice].blob = "B"
                            /\ voices'[calls'[2].voice].gain = DefaultVolume
                            /\ calls'[1].voice \notin activeSources'
          /\ DecodeOk(1) \/ DecodeOk(2)]_vars

\* both calls have completed, B's decode resolved first and A's last: A's
\* entry is the one registered, at gain 0.5
C9_Witness ==
    /\ Len(calls) = 2 /\ Done(1) /\ Done(2)
    /\ calls[1].voice = 2 /\ calls[2].voice = 1
    /\ activeSources = {2}
    /\ voices[2].blob = "A" /\ voices[2].gain = 1 /\ voices[2].st = "playing"
    /\ voices[1].blob = "B" /\ voices[1].st # "playing"

\* C10: a call that is waiting for its decode keeps waiting until its own
\* decode settles, whatever else runs; the step in which a decode resolves
\* stops every registered entry and leaves exactly the new entry registered
\* and playing, bound to the call's payload at the call's volume; so the
\* registry, when not empty, holds the entry created last, that of the decode
\* that resolved last, whatever the order of the calls.
C10_DecodeNeverCancelled ==
    [][/\ \A i \in DOMAIN calls :
              calls[i].pc = "decode" =>
                  \/ calls'[i] = calls[i]
                  \/ DecodeOk(i)
                  \/ DecodeFail(i)
       /\ \A i \in CallIds :
              DecodeOk(i) =>
                  /\ OnlyEntryOf(i)
                  /\ calls'[i].voice = Len(voices')
                  /\ \A v \in activeSources : voices'[v].st # "playing"
       /\ activeSources' # {} => activeSources' = {Len(voices')}]_vars

\* the call made second resolved first; a fade and a stopAllSounds() during
\* that fade were issued while the first call's decode was still pending;
\* then the first call's decode resolved and its entry is the one registered
C10_Witness ==
    /\ Len(calls) = 2 /\ Done(1) /\ Done(2)
    /\ calls[1].voice = 2 /\ calls[2].voice = 1
    /\ stoppedBefore # {}
    /\ activeSources = {2} /\ voices[2].st = "playing"

\* C11: from its invocation to the resolution of its decode a playAudioBlob
\* call leaves the registry, every entry (gain, ramp, playing or not) and the
\* pending fade as they are: the steps it takes in that interval are the
\* invocation itself and the resolution of ctx.resume(), and neither
\* changes activeSources, voices, fadeTimeout or the scheduled timeouts.
C11_NoEarlyStop ==
    [][/\ \A pad \in Pads :
             Play(pad[1], pad[2])
                 => UNCHANGED <<activeSources, voices, fadeTimeout, timers>>
       /\ \A i \in CallIds :
             ResumeOk(i)
                 => UNCHANGED <<activeSources, voices, fadeTimeout, timers>>]_vars

\* a later call waits for its decode while the entry of the first call is
\* still registered, playing and fading, with the fade timeout pending
C11_Witness ==
    /\ Len(calls) = 2 /\ calls[2].pc = "decode"
    /\ Done(1) /\ calls[1].voice = 1 /\ activeSources = {1}
    /\ voices[1].st = "playing" /\ voices[1].ramp
    /\ fadeTimeout # 0 /\ fadeTimeout \in TimerId(timers)
    /\ ctxState = "running"

\* C12: the onended callback of an entry deletes that entry from the registry
\* and nothing else: every other registered entry stays registered, no other
\* entry, no timeout and not fadeTimeout is touched, and when the entry is
\* no longer registered (stopAllSounds removed it) the registry is unchanged.
C12_EndedRemovesOnlyItself ==
    [][\A v \in CallIds :
          OnEnded(v)
              => /\ activeSources' = activeSources \ {v}
                 /\ v \notin activeSources => activeSources' = activeSources
                 /\ \A w \in DOMAIN voices : w # v => voices'[w] = voices[w]
                 /\ UNCHANGED <<fadeTimeout, timers>>]_vars

\* entry 1 was stopped by the solo step of the call that registered entry 2
\* (that call found the fade of entry 1 still pending), the ended event of
\* entry 1 has been dispatched since, and entry 2 is registered and playing
C12_Witness ==
    /\ Len(voices) = 2
    /\ voices[1].st = "stopped" /\ voices[1].ended
    /\ \E i \in DOMAIN calls : calls[i].voice = 2 /\ calls[i].pending
    /\ activeSources = {2} /\ voices[2].st = "playing" /\ ~voices[2].ended

\* C13: when a registered entry's source has already finished, so that
\* source.stop() raises for it, stopAllSounds() still runs to its end: the
\* registry is empty afterwards, fadeTimeout is empty and its timeout is
\* cleared, no ramp is left on the entries it went through, and a play whose
\* decode resolves in such a state still registers its entry.
C13_StopAllTolerant ==
    (\E v \in activeSources : stopThrows(voices[v]))
        => /\ LET r == stopAllSounds(Coord)
              IN  /\ r.activeSources = {}
                  /\ r.fadeTimeout = 0
                  /\ fadeTimeout \notin TimerId(r.timers)
                  /\ \A v \in activeSources :
                         ~r.voices[v].ramp /\ r.voices[v].st # "playing"
           /\ playDecoded(Coord, "A", 1).activeSources = {Len(voices) + 1}

\* a caller ran stopAllSounds() during a fade while the registered source had
\* finished and its ended event was still to come: the entry is out of the
\* registry, its ramp and the fade timeout are gone
C13_Witness ==
    /\ Len(voices) = 1
    /\ voices[1].st = "finished" /\ ~voices[1].ended /\ ~voices[1].ramp
    /\ activeSources = {} /\ fadeTimeout = 0 /\ timers = {}
    /\ stoppedBefore # {}

MasterLevel(s) == IF s.hasMasterGain THEN s.masterGainNode ELSE MasterInit

\* C15: with an empty registry fadeOutAllSounds(d) changes nothing a caller
\* can observe, whatever d is: the registry, the entries, fadeTimeout, the
\* scheduled timeouts (none is added, none is cleared) and the master level
\* are the same.  (The call does create the context if none exists yet.)
C15_FadeEmptyIsNoOp ==
    activeSources = {}
        => \A d \in Durations :
              LET r == fadeOutAllSounds(Coord, d)
              IN  /\ Observed(r) = Observed(Coord)
                  /\ r.nextTimer = nextTimer
                  /\ MasterLevel(r) = MasterLevel(Coord)

\* the registry is empty while a fade timeout is still pending (the faded
\* entry ended by itself): the state in which returning early and stopping
\* differ
C15_Witness ==
    /\ activeSources = {}
    /\ fadeTimeout # 0 /\ fadeTimeout \in TimerId(timers)
    /\ \A v \in DOMAIN voices : voices[v].st = "finished" /\ voices[v].ended

\* C16: fadeOutAllSounds(d) with d > 0.05 and a non-empty registry leaves
\* the membership of the registry as it is and stops no source, schedules a
\* ramp on every registered entry, and schedules one new timeout whose id it
\* keeps in fadeTimeout; that timeout is the only one scheduled afterwards,
\* so a timeout that was pending before is cleared and cannot fire.
C16_FadeSchedulesOneStop ==
    [][\A d \in Durations :
          (d > Epsilon /\ activeSources # {} /\ FadeAll(d))
              => /\ activeSources' = activeSources
                 /\ \A v \in activeSources :
                        voices'[v].ramp /\ voices'[v].st = voices[v].st
                 /\ fadeTimeout' # 0
                 /\ fadeTimeout' \notin TimerId(timers)
                 /\ TimerId(timers') = {fadeTimeout'}
                 /\ TimerId(timers) \cap TimerId(timers') = {}]_vars

\* a second fade was started during the first: the first timeout is gone,
\* the second is pending, and the entry is still registered, playing and
\* ramping
C16_Witness ==
    /\ nextTimer = 3 /\ fadeTimeout = 2 /\ TimerId(timers) = {2}
    /\ activeSources = {1}
    /\ voices[1].st = "playing" /\ voices[1].ramp
    /\ stoppedBefore = {} /\ Len(calls) = 1

\* C17: fadeOutAllSounds starts the ramp of every registered entry at the
\* gain the entry has when it is called (the call itself leaves the gain as
\* it is, also when the entry is already fading and its gain is below the
\* volume it was played with), and an entry that has a ramp keeps it for as
\* long as it stays registered: its gain never goes up, stays at or below
\* the value its ramp started from, and a later ramp never starts higher
\* than an earlier one or than the volume the entry was played with.
C17_FadeFromCurrentGain ==
    [][/\ \A d \in Durations :
             FadeAll(d)
                 => \A v \in activeSources' :
                        /\ voices'[v].gain = voices[v].gain
                        /\ voices'[v].rampFrom = voices[v].gain
       /\ \A v \in activeSources \cap activeSources' :
             voices[v].ramp
                 => /\ voices'[v].ramp
                    /\ voices'[v].gain <= voices[v].gain
                    /\ voices'[v].gain <= voices'[v].rampFrom
                    /\ voices'[v].rampFrom <= voices[v].rampFrom
                    /\ voices'[v].rampFrom <= voices[v].volume]_vars

\* entry 1, played at 1.0, is registered and fading under a second fade
\* whose ramp started at 0.5, the gain the first fade had brought it to
C17_Witness ==
    /\ activeSources = {1}
    /\ voices[1].volume = DefaultVolume /\ voices[1].rampFrom = 1
    /\ voices[1].ramp /\ voices[1].st = "playing"
    /\ fadeTimeout = 2 /\ TimerId(timers) = {2}

\* C18 as claimed: after fadeOutAllSounds(d) with d > 0.05 on a non-empty
\* registry and with no further playAudioBlob, stopAllSounds or
\* fadeOutAllSounds call, the pending fade ends only by its timeout firing,
\* and the registry is empty afterwards.
C18_FadeAlwaysFires ==
    [][(fadeTimeout # 0 /\ fadeTimeout' = 0)
          => /\ \E t \in TimerIds : TimerFire(t)
             /\ activeSources' = {}]_vars

\* C18 as amended: after fadeOutAllSounds(d) with d > 0.05 on a non-empty
\* registry, with no further playAudioBlob, stopAllSounds or
\* fadeOutAllSounds call and once no earlier playAudioBlob call is waiting
\* for its decode, the timeout eventually fires; nothing else ends the
\* pending fade; and the firing does what stopAllSounds() would do: the
\* registry is empty, fadeTimeout is empty and no timeout is left.
C18_QuietFadeFires ==
    /\ (fadeTimeout # 0 /\ \A i \in DOMAIN calls : Done(i))
           ~> (fadeTimeout = 0 /\ timers = {} /\ activeSources = {})
    /\ [][(fadeTimeout # 0 /\ (\A i \in DOMAIN calls : Done(i))
                           /\ fadeTimeout' = 0)
             => \E t \in TimerIds : TimerFire(t)]_vars
    /\ [][\A t \in TimerIds :
             TimerFire(t)
                 => /\ Observed(Coord)' = Observed(stopAllSounds(Coord))
                    /\ activeSources' = {} /\ fadeTimeout' = 0
                    /\ timers' = {}]_vars

\* the timeout of the fade has fired with no call waiting: the entry was
\* stopped while it was playing, nothing is registered or scheduled
C18_Witness ==
    /\ Len(calls) = 1 /\ Len(voices) = 1
    /\ voices[1].st = "stopped" /\ ~voices[1].ramp
    /\ activeSources = {} /\ fadeTimeout = 0 /\ timers = {}
    /\ nextTimer = 2

\* C19: at most one AudioContext with its master gain node is ever
\* constructed; it exists exactly from the first operation that asks for it
\* (no call was made and no entry exists before it does), the master gain
\* node exists exactly when the context does, and the gain of every entry is
\* connected to that master gain node, never to ctx.destination.
C19_OneMixerBus ==
    /\ contexts <= 1
    /\ audioContext <=> contexts = 1
    /\ hasMasterGain <=> audioContext
    /\ ~audioContext => calls = <<>> /\ voices = <<>> /\ masterGainNode = 0
    /\ \A v \in DOMAIN voices : voices[v].toMaster

\* two entries were created and the master volume was set, all on the one
\* context: both entries feed the master gain node
C19_Witness ==
    /\ contexts = 1
    /\ Len(voices) = 2 /\ voices[1].toMaster /\ voices[2].toMaster
    /\ activeSources = {2}
    /\ masterGainNode = 1

\* C20: in every reachable state the master level target is within [0, 1]
\* (0 .. 2 in units of 0.5), whatever setMasterVolume was called with.
C20_MasterInRange == MasterLevel(Coord) \in 0..MasterInit

\* C21: setMasterVolume(level) leaves the registry, every entry (its gain
\* and its ramp) and the pending fade as they are; a step that changes the
\* master level is a setMasterVolume call, so playAudioBlob, stopAllSounds,
\* fadeOutAllSounds, the end of a source and the firing of a fade timeout
\* never change it; and the entry a play creates has the gain the play was
\* given, whatever the master level is.
C21_MasterIndependent ==
    /\ [](/\ \A level \in Levels :
                Observed(setMasterVolume(Coord, level)) = Observed(Coord)
          /\ \A pad \in Pads :
                LET r == playDecoded(Coord, pad[1], pad[2])
                IN  /\ r.voices[Len(r.voices)].gain = pad[2]
                    /\ MasterLevel(r) = MasterLevel(Coord))
    /\ [][MasterLevel(Coord)' # MasterLevel(Coord)
             => \E level \in Levels : SetMasterVolume(level)]_vars

\* the master level is 0.5 while the entry of pad B, played at 1.0, is
\* registered and fading with its gain at 1.0 and the fade timeout pending
C21_Witness ==
    /\ masterGainNode = 1
    /\ activeSources = {1} /\ voices[1].blob = "B"
    /\ voices[1].gain = DefaultVolume /\ voices[1].ramp
    /\ fadeTimeout # 0

\* C22: in every reachable state and for every level, setMasterVolume(level)
\* called twice in a row leaves the module in the state one call leaves it
\* in: the master target is level, and the registry, the entries and the
\* pending fade are those from before the calls.
C22_SetMasterIdempotent ==
    \A level \in Levels :
        LET once == setMasterVolume(Coord, level)
            twice == setMasterVolume(once, level)
        IN  /\ twice = once
            /\ twice.masterGainNode = level
            /\ Observed(twice) = Observed(Coord)

\* the master target was set to 1.5 during a fade: a second
\* setMasterVolume(1.5) starts from the target it asks for
C22_Witness ==
    /\ masterGainNode = 3 /\ hasMasterGain
    /\ activeSources # {} /\ fadeTimeout # 0
    /\ setMasterVolume(Coord, 3) = Coord

\* the little-endian 16-bit and 32-bit numbers at an offset of a file
le16(file, offset) == file[offset] + 256 * file[offset + 1]
le32(file, offset) == le16(file, offset) + 65536 * le16(file, offset + 2)

\* what C23 says of every header field but block align and byte rate, and
\* of the sample bytes
WavLayout ==
    /\ DOMAIN wav.file = 0..(43 + Len(wav.samples))
    /\ le32(wav.file, 4) = 36 + Len(wav.samples)
    /\ le32(wav.file, 16) = 16
    /\ le16(wav.file, 20) = 1
    /\ le16(wav.file, 22) = wav.numChannels
    /\ le32(wav.file, 24) = wav.sampleRate
    /\ le16(wav.file, 34) = wav.bitDepth
    /\ le32(wav.file, 40) = Len(wav.samples)
    /\ \A i \in 1..Len(wav.samples) : wav.file[43 + i] = wav.samples[i]

\* C23 as claimed: for every byte sequence and every (sampleRate, channels,
\* bitDepth) the file createWavFile returns has 44 + len bytes, the header
\* fields the claim lists, with byte rate = sampleRate*channels*bitDepth/8
\* and block align = channels*bitDepth/8, and the samples from offset 44.
C23_WavHeader ==
    wav.by # "none"
        => /\ WavLayout
           /\ 8 * le32(wav.file, 28)
                 = wav.sampleRate * wav.numChannels * wav.bitDepth
           /\ 8 * le16(wav.file, 32) = wav.numChannels * wav.bitDepth

\* C23 as amended: the same, for every (sampleRate, channels, bitDepth)
\* whose bitDepth is a multiple of 8 and whose field values fit the width
\* of their fields; when channels*bitDepth/8 or
\* sampleRate*channels*bitDepth/8 is not a whole number the field holds its
\* integer part.
C23_WavHeaderWholeBytes ==
    wav.by # "none"
        => /\ WavLayout
           /\ le32(wav.file, 28)
                 = (wav.sampleRate * wav.numChannels * wav.bitDepth) \div 8
           /\ le16(wav.file, 32) = (wav.numChannels * wav.bitDepth) \div 8
           /\ wav.bitDepth % 8 = 0
                 => /\ 8 * le32(wav.file, 28)
                          = wav.sampleRate * wav.numChannels * wav.bitDepth
                    /\ 8 * le16(wav.file, 32)
                          = wav.numChannels * wav.bitDepth

\* three PCM bytes were wrapped as 24-bit stereo at 48 kHz: the file has 47
\* bytes and the last of them is the last sample byte
C23_Witness ==
    /\ wav.by = "createWavFile"
    /\ wav.sampleRate = 48000 /\ wav.numChannels = 2 /\ wav.bitDepth = 24
    /\ wav.samples = <<1, 0, 255>>
    /\ wav.file[46] = 255 /\ le32(wav.file, 28) = 288000

\* the sample data a reader of the file finds: the data size of the header
\* many bytes from offset 44
wavData(file) == [i \in 1..le32(file, 40) |-> file[43 + i]]

\* C24: for the file generateSpeech makes of PCM bytes X, the header says
\* PCM, 1 channel, 24000 Hz, 16 bits, the data size it records divided by
\* the byte rate it records is len(X) / 48000 (the duration in seconds), and
\* the sample data of the file is X.
C24_WavRoundTrip ==
    wav.by = "generateSpeech"
        => /\ [i \in 1..4 |-> wav.file[i - 1]] = RIFF
           /\ [i \in 1..4 |-> wav.file[7 + i]] = WAVE
           /\ le16(wav.file, 20) = 1 /\ le16(wav.file, 22) = 1
           /\ le32(wav.file, 24) = 24000 /\ le16(wav.file, 34) = 16
           /\ le32(wav.file, 28) = 48000
           /\ le32(wav.file, 40) * 48000
                 = Len(wav.samples) * le32(wav.file, 28)
           /\ wavData(wav.file) = wav.samples

\* generateSpeech wrapped the two PCM bytes of one 16-bit sample
C24_Witness ==
    /\ wav.by = "generateSpeech"
    /\ wav.samples = <<0, 255>>
    /\ DOMAIN wav.file = 0..45
    /\ wavData(wav.file) = <<0, 255>>

\* the entries whose source is playing (audible, fading or not)
Sounding(s) == {v \in DOMAIN s.voices : s.voices[v].st = "playing"}

\* C25: in every reachable state at most one source is playing; and the
\* step that runs when a decode has resolved is one step in which the solo
\* stop comes first: after its stopAllSounds() no source is playing, and
\* after the whole step the only playing source is the new entry's, which
\* is also the only registered entry.
C25_OneSounding ==
    /\ Cardinality(Sounding(Coord)) <= 1
    /\ Sounding(stopAllSounds(Coord)) = {}
    /\ \A pad \in Pads :
          LET r == playDecoded(Coord, pad[1], pad[2])
          IN  /\ Sounding(r) = {Len(voices) + 1}
              /\ r.activeSources = {Len(voices) + 1}

\* the second play resolved while the entry of the first was playing and
\* fading: the first source is stopped, the second is the one that plays
C25_Witness ==
    /\ Len(voices) = 2
    /\ voices[1].st = "stopped" /\ ~voices[1].ended
    /\ voices[2].st = "playing"
    /\ Sounding(Coord) = {2} /\ activeSources = {2}
    /\ \E i \in DOMAIN calls : calls[i].voice = 2 /\ calls[i].pending

\* C26: in every reachable state a registered entry has a started source
\* that was not stopped by source.stop() (it is playing, or has played to
\* its end and waits for its ended event), and every playing source belongs
\* to a registered entry; a step that takes an entry out of the registry
\* does not leave its source playing, and an entry that is out of the
\* registry never gets back in.
C26_RegistryIsLiveness ==
    /\ [](/\ activeSources \subseteq DOMAIN voices
          /\ \A v \in activeSources :
                voices[v].st \in {"playing", "finished"} /\ ~voices[v].ended
          /\ Sounding(Coord) \subseteq activeSources)
    /\ [][\A v \in DOMAIN voices :
             /\ v \notin activeSources => v \notin activeSources'
             /\ v \in activeSources /\ v \notin activeSources'
                    => voices'[v].st # "playing"]_vars

\* entry 1 played to its end, is out of the registry and has had its
\* ended event; entry 2 is registered and playing; no fade was ever started
C26_Witness ==
    /\ Len(voices) = 2
    /\ voices[1].st = "finished" /\ voices[1].ended
    /\ activeSources = {2} /\ voices[2].st = "playing"
    /\ fadeTimeout = 0 /\ nextTimer = 1

\* the combination a key event stands for: the held modifiers in the order
\* Ctrl, Shift, Alt, Meta, then the key, with ' ' named Space and a single
\* character in upper case, joined by '+'
Combination(e) ==
    LET held == [Ctrl |-> e.ctrlKey, Shift |-> e.shiftKey, Alt |-> e.altKey,
                 Meta |-> e.metaKey]
        mods == SelectSeq(<<"Ctrl", "Shift", "Alt", "Meta">>,
                          LAMBDA m : held[m])
        key == IF e.key = " " THEN "Space"
               ELSE IF Len(e.key) = 1 THEN toUpperCase(e.key)
               ELSE e.key
    IN  join(mods \o <<key>>)

\* the playAudioBlob call for a pad
PlayOf(pad) == [blob |-> pad.audioBlob[1], volume |-> pad.volume]

\* C27: a handler of the board calls playAudioBlob at most once, and only a
\* pad click or a key press calls it at all; a click calls it only outside
\* edit mode and for a pad with audio; a key press calls it only when the
\* event targets no text field and is no standalone modifier, and then for
\* the first pad whose shortcut is the pressed combination, which has audio.
C27_NoPlayWithoutAudio ==
    /\ Len(app.played) <= 1
    /\ app.played # <<>> => app.by.handler \in {"click", "key"}
    /\ app.by.handler = "click" /\ app.played # <<>>
          => LET pad == app.pads[app.by.arg + 1]
             IN  /\ ~app.isEditMode
                 /\ pad.audioBlob # <<>>
                 /\ app.played = <<PlayOf(pad)>>
    /\ app.by.handler = "key" /\ app.played # <<>>
          => LET e == app.by.arg
                 matches == {k \in 1..Len(app.pads) :
                               app.pads[k].shortcut = <<Combination(e)>>}
             IN  /\ e.target \notin {"input", "textarea"}
                 /\ e.key \notin Modifiers
                 /\ \E k \in matches :
                       /\ \A j \in matches : k <= j
                       /\ app.pads[k].audioBlob # <<>>
                       /\ app.played = <<PlayOf(app.pads[k])>>

\* a press of A on the board has played pad-0 and not pad-7, which has the
\* same shortcut
C27_Witness ==
    /\ app.by.handler = "key"
    /\ app.by.arg.key = "a" /\ app.by.arg.target = "body"
    /\ app.pads[1].shortcut = <<"A">> /\ app.pads[8].shortcut = <<"A">>
    /\ app.pads[8].audioBlob = <<"B">>
    /\ app.played = <<[blob |-> "A", volume |-> 1]>>

\* C28: for a key event that is neither a standalone modifier nor Backspace
\* or Delete, the modal records the combination the event stands for, and
\* when the same key with the same modifiers is later pressed outside a text
\* field the listener computes the very same string and so plays the pad
\* that was saved with it.
C28_RecorderIsListener ==
    kbd.recorded # <<>>
        /\ kbd.e[1].key \notin Modifiers \cup {"Backspace", "Delete"}
        => /\ kbd.recorded = <<Combination(kbd.e[1])>>
           /\ kbd.heard # <<>>
                 /\ kbd.heard[1].target \notin {"input", "textarea"}
                 => /\ kbd.heard[1].combo = kbd.recorded
                    /\ kbd.heard[1].played
                          = <<[blob |-> "A", volume |-> DefaultVolume]>>

\* Ctrl+Shift+Space was recorded and then pressed on the board
C28_Witness ==
    /\ kbd.e = <<Key(" ", TRUE, TRUE)>>
    /\ kbd.recorded = <<"Ctrl+Shift+Space">>
    /\ kbd.heard # <<>>
    /\ kbd.heard[1].target = "body"
    /\ kbd.heard[1].combo = <<"Ctrl+Shift+Space">>
    /\ kbd.heard[1].played # <<>>

\* C29: once initPads has finished, loaded or failed, the pad list always
\* has 16 entries with the ids pad-0 .. pad-15 in this order; a save leaves
\* every pad but the edited one as it was, and leaves all of them as they
\* were when the modal hands over no blob and the edited pad has none; a
\* delete leaves every other pad as it was and, when confirmed, makes the
\* pad an empty entry without audio.
C29_GridFixed ==
    /\ [](app.initPads # "pending"
            => /\ Len(app.pads) = TOTAL_PADS
               /\ \A k \in 1..TOTAL_PADS : app.pads[k].id = PadId(k - 1))
    /\ [][/\ \A f \in Forms :
               HandleSave(f)
                  => /\ \A k \in 1..TOTAL_PADS :
                           <<app.pads[k].id>> # app.editingPadId
                              => app'.pads[k] = app.pads[k]
                     /\ f.blob = <<>>
                           /\ (\A k \in 1..TOTAL_PADS :
                                  <<app.pads[k].id>> = app.editingPadId
                                      => app.pads[k].audioBlob = <<>>)
                           => app'.pads = app.pads
          /\ \A i \in Touched, confirmed \in BOOLEAN :
               DeletePad(i, confirmed)
                  => /\ \A k \in 1..TOTAL_PADS :
                           k # i + 1 => app'.pads[k] = app.pads[k]
                     /\ app'.pads[i + 1]
                           = IF confirmed THEN emptyPad(PadId(i))
                             ELSE app.pads[i + 1]
                     /\ confirmed => app'.pads[i + 1].audioBlob = <<>>]_vars

\* stored pads were loaded, pad-0 was deleted and pad-15 was saved with a
\* new blob, and pad-7 is still as it was loaded
C29_Witness ==
    /\ app.initPads = "loaded"
    /\ app.edits = 2
    /\ Len(app.pads) = TOTAL_PADS
    /\ app.pads[1] = emptyPad(PadId(0))
    /\ app.pads[TOTAL_PADS].audioBlob = <<"A">>
    /\ app.pads[TOTAL_PADS].id = PadId(TOTAL_PADS - 1)
    /\ app.pads[8] = storedPad(7, "B", 2, "A")

====
